---- MODULE Spec2Model ----
(***************************************************************************)
(* Contact / entity priority scoring and follow-up auto-upgrade            *)
(* (src/scoring.py), modelled as state machines over the records the       *)
(* functions read and mutate.                                              *)
(*                                                                         *)
(* Conventions                                                             *)
(*   - a Python str that the code only compares (a tier) is a TLA+ string; *)
(*     a Python str that the code parses (follow_up_date) is a sequence of *)
(*     one-character strings, so that strptime is computed, not assumed;   *)
(*   - a dict is a function whose DOMAIN is the set of keys present;       *)
(*   - a date is its proleptic Gregorian ordinal (date.toordinal());       *)
(*   - a float is the exact value of an IEEE-754 double, kept as four      *)
(*     limbs (see the Float section); a returned score is kept in tenths.  *)
(*   - the tier keys of CP_WEIGHTS that hold Hangul are written with their *)
(*     ASCII romanisation (the module text is ASCII only).                 *)
(***************************************************************************)
EXTENDS Integers, Sequences, FiniteSets, TLC

VARIABLES
    today,      \* what date.today() returns now (ordinal)
    arg,        \* the record handed to score_contact / score_entity
    ret,        \* outcome of the last direct call of a scoring function
    contacts,   \* the caller's list of contact dicts
    entities,   \* the caller's list of entity dicts
    call,       \* the batch call in progress or last finished, with its locals
    result,     \* what the last finished batch call returned
    master,     \* the data rows of the "Master" tab of the spreadsheet
    business,   \* the data rows of the "Business Entities" tab
    changelog,  \* the rows appended to the two change-log tabs
    cache,      \* sheets._cache: "contacts" and "contacts_time"
    ecache,     \* sheets_entities._ecache: "entities" and "entities_time"
    now,        \* what time.time() returns now (seconds)
    task,       \* _run_contact_startup_tasks: its position and locals
    threads     \* the request threads that call the storage layer

\* the state of the storage layer and of its callers
storeVars == <<master, business, changelog, cache, ecache, now, task, threads>>

vars == <<today, arg, ret, contacts, entities, call, result,
          master, business, changelog, cache, ecache, now, task, threads>>

\* a cache entry: `set` is "is not None"; the module starts with None and 0
NoCache == [set |-> FALSE, list |-> <<>>, time |-> 0]

\* the storage layer is not in use
StoreIdle ==
    /\ master = <<>> /\ business = <<>> /\ changelog = <<>>
    /\ cache = NoCache /\ ecache = NoCache
    /\ now = 0
    /\ task = [pc |-> "off"]
    /\ threads = <<>>

----------------------------------------------------------------------------
(* Bounds of the model *)

\* longest list handed to a batch operation
MaxLen == 2
\* how many times the system date may roll over during a behaviour
MaxTicks == 1
\* how many times the application is started
MaxStarts == 2
\* how many times the clock of time.time() is seen to advance
MaxClock == 2

----------------------------------------------------------------------------
(* Float: IEEE-754 binary64 arithmetic on the values the scoring formula   *)
(* meets.  Every double involved is a non-negative multiple of 2^-54 below *)
(* 2^8, so a double is the integer N = value * 2^54, written in base 2^16  *)
(* as <<l0, l1, l2, l3>> (little endian, l3 not reduced).                  *)

LimbBase == 2^16

\* carry propagation of limb-wise sums or products
Normalize(x) ==
    LET c1 == x[2] + (x[1] \div LimbBase)
        c2 == x[3] + (c1 \div LimbBase)
        c3 == x[4] + (c2 \div LimbBase)
    IN  <<x[1] % LimbBase, c1 % LimbBase, c2 % LimbBase, c3>>

RECURSIVE FloorLog2(_)
FloorLog2(n) == IF n <= 1 THEN 0 ELSE 1 + FloorLog2(n \div 2)

\* the spacing of doubles at the magnitude of N, in units of 2^-54:
\* N < 2^53 is exact (l3 < 2^5), otherwise 53 significant bits are kept
Quantum(x) == IF x[4] < 32 THEN 1 ELSE 2^(FloorLog2(x[4]) - 4)

\* round-to-nearest, ties-to-even, of an exact result to a double
RoundToDouble(x) ==
    LET q    == Quantum(x)
        r    == x[1] % q
        up   == (2 * r > q) \/ (2 * r = q /\ (x[1] \div q) % 2 = 1)
        l0   == IF up THEN x[1] - r + q ELSE x[1] - r
    IN  Normalize(<<l0, x[2], x[3], x[4]>>)

\* a * b where a is an int (or a float holding an integer) and b a double
FMul(n, f) == RoundToDouble(Normalize(<<n * f[1], n * f[2], n * f[3], n * f[4]>>))

\* a + b on doubles
FAdd(a, b) ==
    RoundToDouble(Normalize(<<a[1] + b[1], a[2] + b[2], a[3] + b[3], a[4] + b[4]>>))

\* variant of PyRound1: round(x), no digits given; in tenths
PyRound1_no_digits(x) ==
    LET quo  == x[4] \div 64
        hi   == x[4] % 64
        low0 == x[1] = 0 /\ x[2] = 0 /\ x[3] = 0
        tie  == hi = 32 /\ low0
        over == hi > 32 \/ (hi = 32 /\ ~low0)
    IN  10 * (IF over \/ (tie /\ quo % 2 = 1) THEN quo + 1 ELSE quo)

\* round(x, 1): the decimal with one fractional digit nearest to the exact
\* value of x, ties to even; returned as the number of tenths
PyRound1(x) ==
    LET t    == Normalize(<<10 * x[1], 10 * x[2], 10 * x[3], 10 * x[4]>>)
        quo  == t[4] \div 64
        hi   == t[4] % 64
        low0 == t[1] = 0 /\ t[2] = 0 /\ t[3] = 0
        tie  == hi = 32 /\ low0
        over == hi > 32 \/ (hi = 32 /\ ~low0)
    IN  IF over \/ (tie /\ quo % 2 = 1) THEN quo + 1 ELSE quo

\* the doubles nearest to the decimal literals of the score formulas
F_0_30 == <<13107, 13107, 13107, 19>>   \* 0.30 = 0x13333333333333 * 2^-54
F_0_25 == <<0, 0, 0, 16>>               \* 0.25 = 2^52 * 2^-54
F_0_35 == <<26214, 26214, 26214, 22>>   \* 0.35 = 0x16666666666666 * 2^-54
FZero  == <<0, 0, 0, 0>>

----------------------------------------------------------------------------
(* Dates: datetime.strptime(s, "%Y-%m-%d").date() and date arithmetic *)

Digits == {"0", "1", "2", "3", "4", "5", "6", "7", "8", "9"}

DigitVal(c) ==
    CASE c = "0" -> 0 [] c = "1" -> 1 [] c = "2" -> 2 [] c = "3" -> 3
      [] c = "4" -> 4 [] c = "5" -> 5 [] c = "6" -> 6 [] c = "7" -> 7
      [] c = "8" -> 8 [] c = "9" -> 9

IsLeap(y) == (y % 4 = 0) /\ ((y % 100 # 0) \/ (y % 400 = 0))

DaysInMonth(y, m) ==
    IF m = 2 THEN (IF IsLeap(y) THEN 29 ELSE 28)
    ELSE IF m \in {4, 6, 9, 11} THEN 30 ELSE 31

RECURSIVE DaysBeforeMonth(_, _)
DaysBeforeMonth(y, m) ==
    IF m = 1 THEN 0 ELSE DaysBeforeMonth(y, m - 1) + DaysInMonth(y, m - 1)

\* date(y, m, d).toordinal()
ToOrdinal(y, m, d) ==
    LET p == y - 1
    IN  365 * p + (p \div 4) - (p \div 100) + (p \div 400) + DaysBeforeMonth(y, m) + d

\* the character of s at position i, or "" past the end
At(s, i) == IF i \in 1..Len(s) THEN s[i] ELSE ""

\* the regex alternatives of %m and %d that consume two characters
\*   %m: 1[0-2] | 0[1-9]             %d: 3[01] | [12]\d | 0[1-9] | " "[1-9]
TwoCharMonth(a, b) ==
    \/ a = "1" /\ b \in {"0", "1", "2"}
    \/ a = "0" /\ b \in Digits \ {"0"}

TwoCharDay(a, b) ==
    \/ a = "3" /\ b \in {"0", "1"}
    \/ a \in {"1", "2"} /\ b \in Digits
    \/ a = "0" /\ b \in Digits \ {"0"}
    \/ a = " " /\ b \in Digits \ {"0"}

TwoDigits(a, b) == (IF a = " " THEN 0 ELSE 10 * DigitVal(a)) + DigitVal(b)

ValueError == [exc |-> "ValueError", date |-> 0]

\* strptime(s, "%Y-%m-%d").date(): the match of
\*   (\d\d\d\d)-(1[0-2]|0[1-9]|[1-9])-(3[01]|[12]\d|0[1-9]|[1-9]| [1-9])
\* at the start of s, "unconverted data remains" when the match ends before
\* the end of s, and the range checks of the date constructor
Strptime(s) ==
    LET yearOk == /\ \A i \in 1..4 : At(s, i) \in Digits
                  /\ At(s, 5) = "-"
        m2     == TwoCharMonth(At(s, 6), At(s, 7)) /\ At(s, 8) = "-"
        m1     == At(s, 6) \in Digits \ {"0"} /\ At(s, 7) = "-"
        p      == IF m2 THEN 9 ELSE 8      \* where the day starts
        d2     == TwoCharDay(At(s, p), At(s, p + 1))
        d1     == At(s, p) \in Digits \ {"0"}
        end    == IF d2 THEN p + 1 ELSE p  \* last character matched
    IN  IF ~(yearOk /\ (m2 \/ m1) /\ (d2 \/ d1)) THEN ValueError
        ELSE IF end # Len(s) THEN ValueError
        ELSE LET y == 1000 * DigitVal(s[1]) + 100 * DigitVal(s[2])
                      + 10 * DigitVal(s[3]) + DigitVal(s[4])
                 m == IF m2 THEN TwoDigits(s[6], s[7]) ELSE DigitVal(s[6])
                 d == IF d2 THEN TwoDigits(s[p], s[p + 1]) ELSE DigitVal(s[p])
             IN  IF y < 1 \/ d > DaysInMonth(y, m) THEN ValueError
                 ELSE [exc |-> "", date |-> ToOrdinal(y, m, d)]

----------------------------------------------------------------------------
(* Dicts and the module constants of scoring.py *)

\* d.get(k, default)
Get(d, k, default) == IF k \in DOMAIN d THEN d[k] ELSE default

\* d[k] = v
SetItem(d, k, v) == (k :> v) @@ d

Min(a, b) == IF a < b THEN a ELSE b

\* the empty str, for a str kept as a character sequence
EmptyStr == <<>>

BP_WEIGHTS ==
    ("0-Critical" :> 100) @@ ("1-High" :> 75) @@ ("2-Medium" :> 50) @@ ("3-Low" :> 25)

\* variant of CP_WEIGHTS: the first tier given the weight 90
CP_WEIGHTS_1a_90 ==
    ("1A-insaeng-gwangye" :> 90) @@ ("1M-Mentor, eunin" :> 100)
    @@ ("1F-Family" :> 70) @@ ("2A-business useonsunwi" :> 80)
    @@ ("2C-business" :> 50) @@ ("3A-injeok useonsunwi" :> 70)
    @@ ("3C-injeok networking" :> 40) @@ ("4A-Passive" :> 20)
    @@ ("5A-Inactive" :> 0)

CP_WEIGHTS ==
    ("1A-insaeng-gwangye" :> 100) @@ ("1M-Mentor, eunin" :> 100)
    @@ ("1F-Family" :> 70) @@ ("2A-business useonsunwi" :> 80)
    @@ ("2C-business" :> 50) @@ ("3A-injeok useonsunwi" :> 70)
    @@ ("3C-injeok networking" :> 40) @@ ("4A-Passive" :> 20)
    @@ ("5A-Inactive" :> 0)

\* variant of FU_WEIGHTS: FU3 given the weight 60
FU_WEIGHTS_fu3_60 ==
    ("FU0" :> 100) @@ ("FU1" :> 80) @@ ("FU3" :> 60) @@ ("FU5" :> 20) @@ ("FU9" :> 0)

FU_WEIGHTS ==
    ("FU0" :> 100) @@ ("FU1" :> 80) @@ ("FU3" :> 50) @@ ("FU5" :> 20) @@ ("FU9" :> 0)

\* variant of FU_UPGRADE: FU5 jumps to FU1
FU_UPGRADE_fu5_to_fu1 == ("FU5" :> "FU1") @@ ("FU3" :> "FU1") @@ ("FU1" :> "FU0")

\* variant of FU_UPGRADE: FU9 takes part in the upgrade path
FU_UPGRADE_with_fu9 ==
    ("FU9" :> "FU5") @@ ("FU5" :> "FU3") @@ ("FU3" :> "FU1") @@ ("FU1" :> "FU0")

\* variant of FU_UPGRADE: the last tier listed too, mapped to itself
FU_UPGRADE_fu0_to_fu0 ==
    ("FU5" :> "FU3") @@ ("FU3" :> "FU1") @@ ("FU1" :> "FU0") @@ ("FU0" :> "FU0")

FU_UPGRADE == ("FU5" :> "FU3") @@ ("FU3" :> "FU1") @@ ("FU1" :> "FU0")

OVERDUE_MULTIPLIER == 2
OVERDUE_CAP == 100

----------------------------------------------------------------------------
(* score_contact and score_entity.  t is what date.today() returns during  *)
(* the call.  Both return [exc, val]: exc = "" and val the returned score  *)
(* in tenths, or exc the exception that leaves the function.               *)

\* variant of contact_overdue_try: no test that days_overdue > 0
contact_overdue_try_unguarded(fu_date_str, t) ==
    LET parsed == Strptime(fu_date_str)
    IN  IF parsed.exc # "" THEN [exc |-> parsed.exc, val |-> 0]
        ELSE LET days_overdue == t - parsed.date
             IN  [exc |-> "",
                  val |-> Min(days_overdue * OVERDUE_MULTIPLIER, OVERDUE_CAP)]

\* variant of contact_overdue_try: the penalty is not capped
contact_overdue_try_uncapped(fu_date_str, t) ==
    LET parsed == Strptime(fu_date_str)
    IN  IF parsed.exc # "" THEN [exc |-> parsed.exc, val |-> 0]
        ELSE LET days_overdue == t - parsed.date
             IN  IF days_overdue > 0
                 THEN [exc |-> "", val |-> days_overdue * OVERDUE_MULTIPLIER]
                 ELSE [exc |-> "", val |-> 0]

\* the body of the try block of score_contact, from a non-empty date string
contact_overdue_try(fu_date_str, t) ==
    LET parsed == Strptime(fu_date_str)
    IN  IF parsed.exc # "" THEN [exc |-> parsed.exc, val |-> 0]
        ELSE LET days_overdue == t - parsed.date
             IN  IF days_overdue > 0
                 THEN [exc |-> "",
                       val |-> Min(days_overdue * OVERDUE_MULTIPLIER, OVERDUE_CAP)]
                 ELSE [exc |-> "", val |-> 0]

\* variant of contact_overdue: no except clause, the ValueError leaves the function
contact_overdue_uncaught(contact, t) ==
    LET fu_date_str == Get(contact, "follow_up_date", EmptyStr)
    IN  IF fu_date_str = EmptyStr THEN [exc |-> "", val |-> 0]
        ELSE contact_overdue_try(fu_date_str, t)

\* overdue of score_contact: 0, the try block, and "except ValueError: pass"
contact_overdue(contact, t) ==
    LET fu_date_str == Get(contact, "follow_up_date", EmptyStr)
    IN  IF fu_date_str = EmptyStr THEN [exc |-> "", val |-> 0]
        ELSE LET r == contact_overdue_try(fu_date_str, t)
             IN  IF r.exc = "ValueError" THEN [exc |-> "", val |-> 0] ELSE r

\* variant of score_contact: the coefficients of the entity formula
score_contact_entity_coefficients(contact, t) ==
    LET cp      == Get(CP_WEIGHTS, Get(contact, "contact_priority", ""), 0)
        fu      == Get(FU_WEIGHTS, Get(contact, "follow_up_priority", ""), 0)
        overdue == contact_overdue(contact, t)
        score   == FAdd(FAdd(FMul(cp, F_0_35), FMul(fu, F_0_30)),
                        FMul(overdue.val, F_0_35))
    IN  IF overdue.exc # "" THEN [exc |-> overdue.exc, val |-> 0]
        ELSE [exc |-> "", val |-> PyRound1(score)]

\* variant of score_contact: a score already on the record is returned as is
score_contact_keeps_score(contact, t) ==
    LET cp      == Get(CP_WEIGHTS, Get(contact, "contact_priority", ""), 0)
        fu      == Get(FU_WEIGHTS, Get(contact, "follow_up_priority", ""), 0)
        overdue == contact_overdue(contact, t)
        score   == FAdd(FAdd(FMul(cp, F_0_30), FMul(fu, F_0_25)),
                        FMul(overdue.val, F_0_30))
    IN  IF "score" \in DOMAIN contact THEN [exc |-> "", val |-> contact["score"]]
        ELSE IF overdue.exc # "" THEN [exc |-> overdue.exc, val |-> 0]
        ELSE [exc |-> "", val |-> PyRound1(score)]

score_contact(contact, t) ==
    LET cp      == Get(CP_WEIGHTS, Get(contact, "contact_priority", ""), 0)
        fu      == Get(FU_WEIGHTS, Get(contact, "follow_up_priority", ""), 0)
        overdue == contact_overdue(contact, t)
        context == FZero    \* context = 0, so context * 0.15 is 0.0
        score   == FAdd(FAdd(FAdd(FMul(cp, F_0_30), FMul(fu, F_0_25)),
                             FMul(overdue.val, F_0_30)),
                        context)
    IN  IF overdue.exc # "" THEN [exc |-> overdue.exc, val |-> 0]
        ELSE [exc |-> "", val |-> PyRound1(score)]

\* the body of the try block of score_entity
entity_overdue_try(fu_date_str, t) ==
    LET parsed == Strptime(fu_date_str)
    IN  IF parsed.exc # "" THEN [exc |-> parsed.exc, val |-> 0]
        ELSE LET days_overdue == t - parsed.date
             IN  IF days_overdue > 0
                 THEN [exc |-> "",
                       val |-> Min(days_overdue * OVERDUE_MULTIPLIER, OVERDUE_CAP)]
                 ELSE [exc |-> "", val |-> 0]

entity_overdue(entity, t) ==
    LET fu_date_str == Get(entity, "follow_up_date", EmptyStr)
    IN  IF fu_date_str = EmptyStr THEN [exc |-> "", val |-> 0]
        ELSE LET r == entity_overdue_try(fu_date_str, t)
             IN  IF r.exc = "ValueError" THEN [exc |-> "", val |-> 0] ELSE r

\* variant of score_entity: the priority weighted 0.30 as for a contact
score_entity_contact_coefficient(entity, t) ==
    LET bp      == Get(BP_WEIGHTS, Get(entity, "business_priority", ""), 0)
        fu      == Get(FU_WEIGHTS, Get(entity, "follow_up_priority", ""), 0)
        overdue == entity_overdue(entity, t)
        score   == FAdd(FAdd(FMul(bp, F_0_30), FMul(fu, F_0_30)),
                        FMul(overdue.val, F_0_35))
    IN  IF overdue.exc # "" THEN [exc |-> overdue.exc, val |-> 0]
        ELSE [exc |-> "", val |-> PyRound1(score)]

score_entity(entity, t) ==
    LET bp      == Get(BP_WEIGHTS, Get(entity, "business_priority", ""), 0)
        fu      == Get(FU_WEIGHTS, Get(entity, "follow_up_priority", ""), 0)
        overdue == entity_overdue(entity, t)
        score   == FAdd(FAdd(FMul(bp, F_0_35), FMul(fu, F_0_30)),
                        FMul(overdue.val, F_0_35))
    IN  IF overdue.exc # "" THEN [exc |-> overdue.exc, val |-> 0]
        ELSE [exc |-> "", val |-> PyRound1(score)]

----------------------------------------------------------------------------
(* Inputs: the records and dates the specifications range over *)

DigitChars == <<"0", "1", "2", "3", "4", "5", "6", "7", "8", "9">>
DigitChar(n) == DigitChars[n + 1]

\* the str "YYYY-MM-DD" of a date, as the sheet stores it
Iso(y, m, d) ==
    <<DigitChar(y \div 1000), DigitChar((y \div 100) % 10),
      DigitChar((y \div 10) % 10), DigitChar(y % 10), "-",
      DigitChar(m \div 10), DigitChar(m % 10), "-",
      DigitChar(d \div 10), DigitChar(d % 10)>>

\* the date of the first state: 2024-03-10
Today0 == ToOrdinal(2024, 3, 10)

\* markers for "the dict has no such key" when a record is built
Missing == "<missing>"
MissingDate == <<Missing>>

EmptyDict == [k \in {} |-> k]

\* a dict with the given values, without the keys whose value is a marker
Record(prioKey, prio, fu, fuDate) ==
    (IF prio = Missing THEN EmptyDict ELSE prioKey :> prio)
    @@ (IF fu = Missing THEN EmptyDict ELSE "follow_up_priority" :> fu)
    @@ (IF fuDate = MissingDate THEN EmptyDict ELSE "follow_up_date" :> fuDate)

\* date strings that strptime accepts, with their distance from Today0
ValidDates ==
    { Iso(2024, 3, 10),     \* today
      Iso(2024, 3, 9),      \* 1 day ago
      Iso(2024, 3, 3),      \* 7 days ago
      Iso(2024, 3, 2),      \* 8 days ago
      <<"2", "0", "2", "4", "-", "3", "-", "1">>,   \* 9 days ago, not padded
      Iso(2024, 2, 9),      \* 30 days ago
      Iso(2024, 1, 20),     \* 50 days ago
      Iso(2024, 1, 19),     \* 51 days ago
      Iso(2023, 3, 10),     \* 366 days ago
      Iso(2024, 3, 20) }    \* 10 days ahead

\* non-empty date strings on which strptime raises ValueError
MalformedDates ==
    { Iso(2024, 2, 30),                                       \* no such day
      <<"2", "0", "2", "4", "/", "0", "3", "/", "0", "1">>,   \* wrong separator
      Iso(2024, 3, 2) \o <<"T">>,                             \* trailing data
      <<"s", "o", "o", "n">> }                                \* not a date

ContactTiers == DOMAIN CP_WEIGHTS
EntityTiers  == DOMAIN BP_WEIGHTS
FollowUpTiers == DOMAIN FU_WEIGHTS
\* tier strings outside the tables
OtherTiers == {"", "VIP"}
OtherFollowUps == {"", "FU2"}

----------------------------------------------------------------------------
(* SpecScore: one direct call of score_contact or score_entity on a record *)

NoCall == [fn |-> "", pc |-> "", i |-> 0, today |-> 0]
NoRet  == [fn |-> "", exc |-> "", val |-> 0]

ScoreArgs ==
    LET dates == ValidDates \cup MalformedDates \cup {EmptyStr, MissingDate}
        fus   == FollowUpTiers \cup OtherFollowUps \cup {Missing}
    IN  {Record("contact_priority", p, f, d) :
            p \in ContactTiers \cup OtherTiers \cup {Missing}, f \in fus, d \in dates}
        \cup
        {Record("business_priority", p, f, d) :
            p \in EntityTiers \cup OtherTiers \cup {Missing}, f \in fus, d \in dates}

InitScore ==
    /\ today \in {Today0, Today0 + 1}
    /\ arg \in ScoreArgs
    /\ ret = NoRet
    /\ contacts = <<>>
    /\ entities = <<>>
    /\ call = NoCall
    /\ result = <<>>
    /\ StoreIdle

\* ret = score_contact(arg)
CallScoreContact ==
    /\ ret' = [fn |-> "score_contact"] @@ score_contact(arg, today)
    /\ UNCHANGED <<today, arg, contacts, entities, call, result>>
    /\ UNCHANGED storeVars

\* ret = score_entity(arg)
CallScoreEntity ==
    /\ ret' = [fn |-> "score_entity"] @@ score_entity(arg, today)
    /\ UNCHANGED <<today, arg, contacts, entities, call, result>>
    /\ UNCHANGED storeVars

NextScore == CallScoreContact \/ CallScoreEntity

SpecScore == InitScore /\ [][NextScore]_vars

----------------------------------------------------------------------------
(* sorted(records, key=lambda x: x["score"], reverse=True).  A list of     *)
(* dicts is a sequence of records; the list that sorted() returns holds    *)
(* the same dict objects, so it is a sequence of positions in the input.   *)

Reverse(s) == [k \in 1..Len(s) |-> s[Len(s) + 1 - k]]

\* x inserted after every element whose key is <= the key of x
RECURSIVE InsertByKey(_, _, _)
InsertByKey(sorted, x, key) ==
    IF sorted = <<>> THEN <<x>>
    ELSE IF key[x] < key[Head(sorted)] THEN <<x>> \o sorted
    ELSE <<Head(sorted)>> \o InsertByKey(Tail(sorted), x, key)

\* the stable ascending sort of the positions in s
RECURSIVE StableSort(_, _)
StableSort(s, key) ==
    IF s = <<>> THEN <<>>
    ELSE InsertByKey(StableSort(SubSeq(s, 1, Len(s) - 1), key), s[Len(s)], key)

\* variant of sorted_by_score: reverse=True forgotten
sorted_by_score_ascending(records) ==
    StableSort([k \in 1..Len(records) |-> k], [k \in 1..Len(records) |-> records[k]["score"]])

\* variant of sorted_by_score: sorted(...)[::-1], the ascending stable sort
\* reversed as a whole, which reverses the input order of equal keys
sorted_by_score_then_reversed(records) ==
    LET key == [k \in 1..Len(records) |-> records[k]["score"]]
    IN  Reverse(StableSort([k \in 1..Len(records) |-> k], key))

\* list.sort(reverse=True): the list is reversed, sorted stably in
\* ascending key order, and reversed again
sorted_by_score(records) ==
    LET key == [k \in 1..Len(records) |-> records[k]["score"]]
    IN  Reverse(StableSort(Reverse([k \in 1..Len(records) |-> k]), key))

----------------------------------------------------------------------------
(* SpecRank: sort_contacts_by_score and sort_entities_by_score.  Each      *)
(* iteration of the scoring loop reads date.today() anew, so the loop      *)
(* advances one record per step and the date may roll over in between.     *)

Idle == call.pc \in {"", "done"}

RankContacts ==
    { Record("contact_priority", "1A-insaeng-gwangye", "FU0", EmptyStr),
      Record("contact_priority", "1F-Family", "FU3", Iso(2024, 3, 10)),
      Record("contact_priority", "3A-injeok useonsunwi", "FU3", EmptyStr),
      Record("contact_priority", "2C-business", "FU1", Iso(2024, 3, 2)),
      Record("contact_priority", "VIP", "FU9", Iso(2024, 2, 9)),
      Record("contact_priority", Missing, Missing, Iso(2024, 2, 30)),
      Record("contact_priority", "1F-Family", "FU3", Iso(2024, 3, 10))
          @@ ("name" :> "Kim") @@ ("tag" :> "family") }

RankEntities ==
    { Record("business_priority", "0-Critical", "FU0", EmptyStr),
      Record("business_priority", "1-High", "FU5", Iso(2024, 3, 9)),
      Record("business_priority", "1-High", "FU5", EmptyStr),
      Record("business_priority", "3-Low", "FU3", MissingDate),
      Record("business_priority", "2-Medium", "FU2", Iso(2024, 1, 19)),
      Record("business_priority", "", "FU9", <<"s", "o", "o", "n">>),
      Record("business_priority", "1-High", "FU5", EmptyStr)
          @@ ("entity_name" :> "Acme") @@ ("industry" :> "steel") }

\* the lists of at most MaxLen records of S
ListsOf(S) == UNION {[1..n -> S] : n \in 0..MaxLen}

InitRank ==
    /\ today = Today0
    /\ arg = EmptyDict
    /\ ret = NoRet
    /\ \/ contacts \in ListsOf(RankContacts) /\ entities = <<>>
       \/ contacts = <<>> /\ entities \in ListsOf(RankEntities)
    /\ call = NoCall
    /\ result = <<>>
    /\ StoreIdle

\* the system date rolls over
Tick ==
    /\ today < Today0 + MaxTicks
    /\ today' = today + 1
    /\ UNCHANGED <<arg, ret, contacts, entities, call, result>>
    /\ UNCHANGED storeVars

\* sort_contacts_by_score(contacts) is called
SortContactsCall ==
    /\ Idle
    /\ call' = [fn |-> "sort_contacts_by_score", pc |-> "loop", i |-> 1, today |-> 0]
    /\ UNCHANGED <<today, arg, ret, contacts, entities, result>>
    /\ UNCHANGED storeVars

\* the list that sorted() returned, as a list of records
Ranked(records, order) == [k \in 1..Len(order) |-> records[order[k]]]

\* sort_contacts_by_score(ranked) is called on the list an earlier call
\* returned: that list is the parameter `contacts` of the new call
SortContactsCallAgain ==
    /\ call.fn = "sort_contacts_by_score" /\ call.pc = "done"
    /\ contacts' = Ranked(contacts, result)
    /\ result' = [k \in 1..Len(result) |-> k]
    /\ call' = [fn |-> "sort_contacts_by_score", pc |-> "loop", i |-> 1, today |-> 0]
    /\ UNCHANGED <<today, arg, ret, entities>>
    /\ UNCHANGED storeVars

\* c["score"] = score_contact(c), for the next c of the loop
SortContactsScore ==
    /\ call.fn = "sort_contacts_by_score" /\ call.pc = "loop"
    /\ call.i <= Len(contacts)
    /\ LET r == score_contact(contacts[call.i], today)
       IN  IF r.exc # ""
           THEN /\ call' = [call EXCEPT !.pc = "raised"]
                /\ UNCHANGED contacts
           ELSE /\ contacts' = [contacts EXCEPT ![call.i] = SetItem(@, "score", r.val)]
                /\ call' = [call EXCEPT !.i = @ + 1]
    /\ UNCHANGED <<today, arg, ret, entities, result>>
    /\ UNCHANGED storeVars

\* variant of SortContactsReturn: contacts.sort(...) in place, return contacts
SortContactsReturn_in_place ==
    /\ call.fn = "sort_contacts_by_score" /\ call.pc = "loop"
    /\ call.i > Len(contacts)
    /\ contacts' = [k \in 1..Len(contacts) |-> contacts[sorted_by_score(contacts)[k]]]
    /\ result' = [k \in 1..Len(contacts) |-> k]
    /\ call' = [call EXCEPT !.pc = "done"]
    /\ UNCHANGED <<today, arg, ret, entities>>
    /\ UNCHANGED storeVars

\* variant of SortContactsReturn: the first record is read before sorting,
\* an IndexError on an empty list
SortContactsReturn_reads_first ==
    /\ call.fn = "sort_contacts_by_score" /\ call.pc = "loop"
    /\ call.i > Len(contacts)
    /\ IF contacts = <<>>
       THEN /\ call' = [call EXCEPT !.pc = "raised"]
            /\ UNCHANGED result
       ELSE /\ result' = sorted_by_score(contacts)
            /\ call' = [call EXCEPT !.pc = "done"]
    /\ UNCHANGED <<today, arg, ret, contacts, entities>>
    /\ UNCHANGED storeVars

\* return sorted(contacts, key=lambda x: x["score"], reverse=True)
SortContactsReturn ==
    /\ call.fn = "sort_contacts_by_score" /\ call.pc = "loop"
    /\ call.i > Len(contacts)
    /\ result' = sorted_by_score(contacts)
    /\ call' = [call EXCEPT !.pc = "done"]
    /\ UNCHANGED <<today, arg, ret, contacts, entities>>
    /\ UNCHANGED storeVars

\* sort_entities_by_score(entities) is called
SortEntitiesCall ==
    /\ Idle
    /\ call' = [fn |-> "sort_entities_by_score", pc |-> "loop", i |-> 1, today |-> 0]
    /\ UNCHANGED <<today, arg, ret, contacts, entities, result>>
    /\ UNCHANGED storeVars

\* sort_entities_by_score(ranked) is called on the list an earlier call
\* returned
SortEntitiesCallAgain ==
    /\ call.fn = "sort_entities_by_score" /\ call.pc = "done"
    /\ entities' = Ranked(entities, result)
    /\ result' = [k \in 1..Len(result) |-> k]
    /\ call' = [fn |-> "sort_entities_by_score", pc |-> "loop", i |-> 1, today |-> 0]
    /\ UNCHANGED <<today, arg, ret, contacts>>
    /\ UNCHANGED storeVars

\* e["score"] = score_entity(e), for the next e of the loop
SortEntitiesScore ==
    /\ call.fn = "sort_entities_by_score" /\ call.pc = "loop"
    /\ call.i <= Len(entities)
    /\ LET r == score_entity(entities[call.i], today)
       IN  IF r.exc # ""
           THEN /\ call' = [call EXCEPT !.pc = "raised"]
                /\ UNCHANGED entities
           ELSE /\ entities' = [entities EXCEPT ![call.i] = SetItem(@, "score", r.val)]
                /\ call' = [call EXCEPT !.i = @ + 1]
    /\ UNCHANGED <<today, arg, ret, contacts, result>>
    /\ UNCHANGED storeVars

\* return sorted(entities, key=lambda x: x["score"], reverse=True)
SortEntitiesReturn ==
    /\ call.fn = "sort_entities_by_score" /\ call.pc = "loop"
    /\ call.i > Len(entities)
    /\ result' = sorted_by_score(entities)
    /\ call' = [call EXCEPT !.pc = "done"]
    /\ UNCHANGED <<today, arg, ret, contacts, entities>>
    /\ UNCHANGED storeVars

NextRank ==
    \/ Tick
    \/ SortContactsCall \/ SortContactsScore \/ SortContactsReturn
    \/ SortEntitiesCall \/ SortEntitiesScore \/ SortEntitiesReturn
    \/ SortContactsCallAgain \/ SortEntitiesCallAgain

SpecRank == InitRank /\ [][NextRank]_vars

----------------------------------------------------------------------------
(* auto_upgrade_followup and auto_upgrade_entity_followup.  t is the local *)
(* `today`, read once before the loop.  The list `upgraded` holds tuples   *)
(* (record, old_fu, new_fu); the record is the dict object of the input    *)
(* list, so it is kept as its position in that list.                       *)

\* an iteration that leaves the record alone (continue, or days_overdue <= 7)
Skip(record) ==
    [exc |-> "", hit |-> FALSE, record |-> record, old_fu |-> "", new_fu |-> ""]

\* variant of upgrade_contact: the ValueError of strptime is not caught
upgrade_contact_uncaught(contact, t) ==
    LET fu          == Get(contact, "follow_up_priority", "")
        fu_date_str == Get(contact, "follow_up_date", EmptyStr)
    IN  IF fu \notin DOMAIN FU_UPGRADE \/ fu_date_str = EmptyStr THEN Skip(contact)
        ELSE LET parsed == Strptime(fu_date_str)
             IN  IF parsed.exc # "" THEN [Skip(contact) EXCEPT !.exc = parsed.exc]
                 ELSE IF t - parsed.date > 7
                 THEN [exc |-> "", hit |-> TRUE,
                       record |-> SetItem(contact, "follow_up_priority", FU_UPGRADE[fu]),
                       old_fu |-> fu, new_fu |-> FU_UPGRADE[fu]]
                 ELSE Skip(contact)

\* variant of upgrade_contact: days_overdue >= 7
upgrade_contact_at_7(contact, t) ==
    LET fu          == Get(contact, "follow_up_priority", "")
        fu_date_str == Get(contact, "follow_up_date", EmptyStr)
    IN  IF fu \notin DOMAIN FU_UPGRADE \/ fu_date_str = EmptyStr THEN Skip(contact)
        ELSE LET parsed == Strptime(fu_date_str)
             IN  IF parsed.exc = "ValueError" THEN Skip(contact)
                 ELSE IF t - parsed.date >= 7
                 THEN [exc |-> "", hit |-> TRUE,
                       record |-> SetItem(contact, "follow_up_priority", FU_UPGRADE[fu]),
                       old_fu |-> fu, new_fu |-> FU_UPGRADE[fu]]
                 ELSE Skip(contact)

\* the body of the loop of auto_upgrade_followup for one contact
upgrade_contact(contact, t) ==
    LET fu          == Get(contact, "follow_up_priority", "")
        fu_date_str == Get(contact, "follow_up_date", EmptyStr)
    IN  IF fu \notin DOMAIN FU_UPGRADE \/ fu_date_str = EmptyStr THEN Skip(contact)
        ELSE LET parsed == Strptime(fu_date_str)
             IN  IF parsed.exc = "ValueError" THEN Skip(contact)
                 ELSE LET days_overdue == t - parsed.date
                      IN  IF days_overdue > 7
                          THEN [exc |-> "", hit |-> TRUE,
                                record |-> SetItem(contact, "follow_up_priority",
                                                   FU_UPGRADE[fu]),
                                old_fu |-> fu, new_fu |-> FU_UPGRADE[fu]]
                          ELSE Skip(contact)

\* variant of upgrade_contacts_from: upgraded.insert(0, ...)
RECURSIVE upgrade_contacts_from_prepending(_, _, _, _)
upgrade_contacts_from_prepending(list, i, t, upgraded) ==
    IF i > Len(list) THEN [exc |-> "", list |-> list, upgraded |-> upgraded]
    ELSE LET r == upgrade_contact(list[i], t)
         IN  IF r.exc # "" THEN [exc |-> r.exc, list |-> list, upgraded |-> upgraded]
             ELSE upgrade_contacts_from_prepending(
                      [list EXCEPT ![i] = r.record], i + 1, t,
                      IF r.hit THEN <<<<i, r.old_fu, r.new_fu>>>> \o upgraded
                      ELSE upgraded)

\* the loop of auto_upgrade_followup from position i on
RECURSIVE upgrade_contacts_from(_, _, _, _)
upgrade_contacts_from(list, i, t, upgraded) ==
    IF i > Len(list) THEN [exc |-> "", list |-> list, upgraded |-> upgraded]
    ELSE LET r == upgrade_contact(list[i], t)
         IN  IF r.exc # "" THEN [exc |-> r.exc, list |-> list, upgraded |-> upgraded]
             ELSE upgrade_contacts_from(
                      [list EXCEPT ![i] = r.record], i + 1, t,
                      IF r.hit THEN Append(upgraded, <<i, r.old_fu, r.new_fu>>)
                      ELSE upgraded)

auto_upgrade_followup(list, t) == upgrade_contacts_from(list, 1, t, <<>>)

\* variant of upgrade_entity: days_overdue >= 7
upgrade_entity_at_7(entity, t) ==
    LET fu          == Get(entity, "follow_up_priority", "")
        fu_date_str == Get(entity, "follow_up_date", EmptyStr)
    IN  IF fu \notin DOMAIN FU_UPGRADE \/ fu_date_str = EmptyStr THEN Skip(entity)
        ELSE LET parsed == Strptime(fu_date_str)
             IN  IF parsed.exc = "ValueError" THEN Skip(entity)
                 ELSE IF t - parsed.date >= 7
                 THEN [exc |-> "", hit |-> TRUE,
                       record |-> SetItem(entity, "follow_up_priority", FU_UPGRADE[fu]),
                       old_fu |-> fu, new_fu |-> FU_UPGRADE[fu]]
                 ELSE Skip(entity)

\* the body of the loop of auto_upgrade_entity_followup for one entity
upgrade_entity(entity, t) ==
    LET fu          == Get(entity, "follow_up_priority", "")
        fu_date_str == Get(entity, "follow_up_date", EmptyStr)
    IN  IF fu \notin DOMAIN FU_UPGRADE \/ fu_date_str = EmptyStr THEN Skip(entity)
        ELSE LET parsed == Strptime(fu_date_str)
             IN  IF parsed.exc = "ValueError" THEN Skip(entity)
                 ELSE LET days_overdue == t - parsed.date
                      IN  IF days_overdue > 7
                          THEN [exc |-> "", hit |-> TRUE,
                                record |-> SetItem(entity, "follow_up_priority",
                                                   FU_UPGRADE[fu]),
                                old_fu |-> fu, new_fu |-> FU_UPGRADE[fu]]
                          ELSE Skip(entity)

\* the loop of auto_upgrade_entity_followup from position i on
RECURSIVE upgrade_entities_from(_, _, _, _)
upgrade_entities_from(list, i, t, upgraded) ==
    IF i > Len(list) THEN [exc |-> "", list |-> list, upgraded |-> upgraded]
    ELSE LET r == upgrade_entity(list[i], t)
         IN  IF r.exc # "" THEN [exc |-> r.exc, list |-> list, upgraded |-> upgraded]
             ELSE upgrade_entities_from(
                      [list EXCEPT ![i] = r.record], i + 1, t,
                      IF r.hit THEN Append(upgraded, <<i, r.old_fu, r.new_fu>>)
                      ELSE upgraded)

auto_upgrade_entity_followup(list, t) == upgrade_entities_from(list, 1, t, <<>>)

----------------------------------------------------------------------------
(* SpecEscalate: the auto-upgrade calls on a list, over the days *)

EscalateContacts ==
    {Record("contact_priority", "2C-business", f, d) :
        f \in {"FU5", "FU3", "FU9", "FU2"},
        d \in { Iso(2024, 3, 2),      \* 8 days before Today0
                Iso(2024, 3, 3) }}    \* 7 days before Today0
    \cup
    { Record("contact_priority", "2C-business", "FU5", Iso(2024, 2, 30)),  \* malformed
      Record("contact_priority", "2C-business", "FU3", Iso(2024, 2, 30)),
      Record("contact_priority", "2C-business", "FU5", EmptyStr),
      Record("contact_priority", "2C-business", "FU5", MissingDate),
      Record("contact_priority", "2C-business", "FU5", Iso(2024, 3, 20)),  \* future
      Record("contact_priority", "2C-business", "FU9", Iso(2023, 3, 10)),  \* 366 days
      Record("contact_priority", "2C-business", "FU0", Iso(2023, 3, 10)),
      Record("contact_priority", "2C-business", "FU1", Iso(2024, 3, 2)),
      Record("contact_priority", "2C-business", Missing, Iso(2024, 3, 2)) }

EscalateEntities ==
    {Record("business_priority", "1-High", f, d) :
        f \in {"FU1", "FU5", "FU9"},
        d \in {Iso(2024, 3, 2), Iso(2024, 3, 3), <<"s", "o", "o", "n">>}}

InitEscalate ==
    /\ today = Today0
    /\ arg = EmptyDict
    /\ ret = NoRet
    /\ \/ contacts \in ListsOf(EscalateContacts) /\ entities = <<>>
       \/ contacts = <<>> /\ entities \in ListsOf(EscalateEntities)
    /\ call = NoCall
    /\ result = <<>>
    /\ StoreIdle

\* upgraded = auto_upgrade_followup(contacts)
AutoUpgradeFollowup ==
    /\ Idle
    /\ LET r == auto_upgrade_followup(contacts, today)
       IN  /\ contacts' = r.list
           /\ result' = IF r.exc = "" THEN r.upgraded ELSE result
           /\ call' = [fn |-> "auto_upgrade_followup",
                       pc |-> IF r.exc = "" THEN "done" ELSE "raised",
                       i |-> 0, today |-> today]
    /\ UNCHANGED <<today, arg, ret, entities>>
    /\ UNCHANGED storeVars

\* upgraded_entities = auto_upgrade_entity_followup(entities)
AutoUpgradeEntityFollowup ==
    /\ Idle
    /\ LET r == auto_upgrade_entity_followup(entities, today)
       IN  /\ entities' = r.list
           /\ result' = IF r.exc = "" THEN r.upgraded ELSE result
           /\ call' = [fn |-> "auto_upgrade_entity_followup",
                       pc |-> IF r.exc = "" THEN "done" ELSE "raised",
                       i |-> 0, today |-> today]
    /\ UNCHANGED <<today, arg, ret, contacts>>
    /\ UNCHANGED storeVars

NextEscalate == Tick \/ AutoUpgradeFollowup \/ AutoUpgradeEntityFollowup

SpecEscalate == InitEscalate /\ [][NextEscalate]_vars

----------------------------------------------------------------------------
(* Claims about the scoring functions, under SpecScore.                    *)
(* Scores are in tenths, so 100 * score = 10 * ret.val.                    *)

\* the fields of the record being scored, as the functions read them
ArgTier(key) == Get(arg, key, "")
ArgDate == Get(arg, "follow_up_date", EmptyStr)

\* the weights the tables give to the record being scored
ArgContactWeight  == Get(CP_WEIGHTS, ArgTier("contact_priority"), 0)
ArgEntityWeight   == Get(BP_WEIGHTS, ArgTier("business_priority"), 0)
ArgFollowUpWeight == Get(FU_WEIGHTS, ArgTier("follow_up_priority"), 0)

\* the follow-up date is a non-empty string that does not parse
ArgDateMalformed == ArgDate # EmptyStr /\ Strptime(ArgDate).exc = "ValueError"
\* the follow-up date parses
ArgDateParses == ArgDate # EmptyStr /\ Strptime(ArgDate).exc = ""

\* min(2 * days_overdue, 100) for a date strictly before today, else 0
ExpectedPenalty ==
    IF ArgDateParses /\ Strptime(ArgDate).date < today
    THEN Min(2 * (today - Strptime(ArgDate).date), 100)
    ELSE 0

\* C1: score_contact returns 0.30*priority_weight + 0.25*followup_weight
\* + 0.30*overdue_penalty for every contact record and date, with the
\* weights of the tables and the penalty of the record's follow-up date.
C1_ContactScoreFormula ==
    ret.fn = "score_contact" =>
        /\ ret.exc = ""
        /\ 10 * ret.val = 30 * ArgContactWeight + 25 * ArgFollowUpWeight
                          + 30 * contact_overdue(arg, today).val

C1_Witness ==
    /\ ret.fn = "score_contact"
    /\ ArgContactWeight > 0 /\ ArgFollowUpWeight = 50
    /\ contact_overdue(arg, today).val \in 1..99

\* the exact weighted sum of score_entity, in hundredths
EntityExactSum ==
    35 * ArgEntityWeight + 30 * ArgFollowUpWeight + 35 * entity_overdue(arg, today).val

\* C2 as stated: score_entity returns exactly 0.35*priority_weight
\* + 0.30*followup_weight + 0.35*overdue_penalty.
C2_EntityScoreExact ==
    ret.fn = "score_entity" => 10 * ret.val = EntityExactSum

\* C2 as amended: score_entity returns that sum rounded to one decimal
\* place: a multiple of 0.1 within 0.05 of the sum, hence the sum itself
\* whenever the sum is a multiple of 0.1.
C2_EntityScoreRounded ==
    ret.fn = "score_entity" =>
        /\ ret.exc = ""
        /\ 10 * ret.val - EntityExactSum \in -5..5

C2_Witness ==
    /\ ret.fn = "score_entity"
    /\ ArgEntityWeight = 75 /\ ArgFollowUpWeight > 0
    /\ entity_overdue(arg, today).val > 0
    /\ EntityExactSum % 10 = 5

\* the weight tables as documented (any other string: 0)
DocContactWeight(tier) ==
    CASE tier = "1A-insaeng-gwangye" -> 100
      [] tier = "1M-Mentor, eunin" -> 100
      [] tier = "1F-Family" -> 70
      [] tier = "2A-business useonsunwi" -> 80
      [] tier = "2C-business" -> 50
      [] tier = "3A-injeok useonsunwi" -> 70
      [] tier = "3C-injeok networking" -> 40
      [] tier = "4A-Passive" -> 20
      [] tier = "5A-Inactive" -> 0
      [] OTHER -> 0

DocEntityWeight(tier) ==
    CASE tier = "0-Critical" -> 100 [] tier = "1-High" -> 75
      [] tier = "2-Medium" -> 50 [] tier = "3-Low" -> 25 [] OTHER -> 0

DocFollowUpWeight(tier) ==
    CASE tier = "FU0" -> 100 [] tier = "FU1" -> 80 [] tier = "FU3" -> 50
      [] tier = "FU5" -> 20 [] tier = "FU9" -> 0 [] OTHER -> 0

\* C3: every documented tier has its documented weight, and any other tier
\* string (the empty or missing one included) contributes weight 0 to the
\* score, without an error.
C3_TierWeights ==
    /\ ArgContactWeight = DocContactWeight(ArgTier("contact_priority"))
    /\ ArgEntityWeight = DocEntityWeight(ArgTier("business_priority"))
    /\ ArgFollowUpWeight = DocFollowUpWeight(ArgTier("follow_up_priority"))
    /\ ret.fn # "" => ret.exc = ""
    /\ ret.fn = "score_contact" =>
           10 * ret.val = 30 * DocContactWeight(ArgTier("contact_priority"))
                          + 25 * DocFollowUpWeight(ArgTier("follow_up_priority"))
                          + 30 * ExpectedPenalty
    /\ ret.fn = "score_entity" =>
           10 * ret.val - (35 * DocEntityWeight(ArgTier("business_priority"))
                           + 30 * DocFollowUpWeight(ArgTier("follow_up_priority"))
                           + 35 * ExpectedPenalty) \in -5..5

C3_Witness ==
    /\ ret.fn = "score_contact"
    /\ ArgTier("contact_priority") = "VIP"
    /\ "follow_up_priority" \notin DOMAIN arg
    /\ ArgDate = EmptyStr
    /\ ret = [fn |-> "score_contact", exc |-> "", val |-> 0]

\* C4: the overdue penalty used in scoring is min(2 * days_overdue, 100)
\* when the follow-up date parses and is strictly before today, and 0 when
\* the date is today, in the future, or absent.
C4_OverduePenalty ==
    /\ contact_overdue(arg, today) = [exc |-> "", val |-> ExpectedPenalty]
    /\ entity_overdue(arg, today) = [exc |-> "", val |-> ExpectedPenalty]
    /\ ArgDateParses /\ Strptime(ArgDate).date < today =>
           /\ today - Strptime(ArgDate).date >= 1
           /\ ExpectedPenalty \in 2..100
    /\ ret.fn = "score_contact" =>
           10 * ret.val - 30 * ArgContactWeight - 25 * ArgFollowUpWeight
               = 30 * ExpectedPenalty

C4_Witness ==
    /\ ret.fn = "score_contact"
    /\ ArgDateParses
    /\ today - Strptime(ArgDate).date = 51
    /\ 10 * ret.val - 30 * ArgContactWeight - 25 * ArgFollowUpWeight = 3000

\* the record being scored, with an empty follow-up date instead
ArgWithEmptyDate == SetItem(arg, "follow_up_date", EmptyStr)

\* C5: scoring a record with a malformed follow-up date never raises and
\* yields the score of the same record with an empty follow-up date.
C5_MalformedDateAsEmpty ==
    ArgDateMalformed =>
        /\ ret.fn # "" => ret.exc = ""
        /\ ret.fn = "score_contact" => ret.val = score_contact(ArgWithEmptyDate, today).val
        /\ ret.fn = "score_entity" => ret.val = score_entity(ArgWithEmptyDate, today).val

C5_Witness ==
    /\ ArgDateMalformed
    /\ ret.fn = "score_contact"
    /\ ret.exc = "" /\ ret.val > 0

----------------------------------------------------------------------------
(* Claims about the batch ranking, under SpecRank *)

\* a finished call of fn
Returned(fn) == call.fn = fn /\ call.pc = "done"

IsPermutation(seq, n) == Len(seq) = n /\ {seq[k] : k \in 1..Len(seq)} = 1..n

\* the scores of the ranked records never increase along the returned list
Descending(records) ==
    \A k \in 1..(Len(result) - 1) :
        records[result[k]]["score"] >= records[result[k + 1]]["score"]

\* C6: the batch ranking returns a permutation of the input records, every
\* record carries a score field equal to the score function of that record
\* (at a date the clock showed during the behaviour), and the score of each
\* record of the result is >= the score of the next one.
C6_RankedByScore ==
    /\ Returned("sort_contacts_by_score") =>
        /\ IsPermutation(result, Len(contacts))
        /\ \A k \in 1..Len(contacts) :
              /\ "score" \in DOMAIN contacts[k]
              /\ \E t \in Today0..today :
                    score_contact(contacts[k], t) = [exc |-> "", val |-> contacts[k]["score"]]
        /\ Descending(contacts)
    /\ Returned("sort_entities_by_score") =>
        /\ IsPermutation(result, Len(entities))
        /\ \A k \in 1..Len(entities) :
              /\ "score" \in DOMAIN entities[k]
              /\ \E t \in Today0..today :
                    score_entity(entities[k], t) = [exc |-> "", val |-> entities[k]["score"]]
        /\ Descending(entities)

C6_Witness ==
    /\ Returned("sort_contacts_by_score")
    /\ Len(contacts) = 2
    /\ result = <<2, 1>>
    /\ contacts[2]["score"] > contacts[1]["score"]
    /\ contacts[1]["score"] > 0

----------------------------------------------------------------------------
(* Claims about auto-escalation, under SpecEscalate.  Each is a property   *)
(* of the steps that are a call: the unprimed list is the input as the     *)
(* call found it, the primed list and result are what the call left.       *)

TierOf(r) == Get(r, "follow_up_priority", "")
DateOf(r) == Get(r, "follow_up_date", EmptyStr)
DateParses(r) == DateOf(r) # EmptyStr /\ Strptime(DateOf(r)).exc = ""
DaysOverdue(r, t) == t - Strptime(DateOf(r)).date

\* the positions of the records an escalation result reports
Reported(res) == {res[k][1] : k \in 1..Len(res)}
Entries(res) == {res[k] : k \in 1..Len(res)}

\* one step up the chain FU5 -> FU3 -> FU1 -> FU0
OneStepUp(tier) ==
    CASE tier = "FU5" -> "FU3" [] tier = "FU3" -> "FU1" [] tier = "FU1" -> "FU0"
      [] OTHER -> tier

\* the records of a list that are due for escalation on day t
Due(list, t) ==
    {i \in 1..Len(list) :
        /\ TierOf(list[i]) \in {"FU5", "FU3", "FU1"}
        /\ DateParses(list[i])
        /\ DaysOverdue(list[i], t) > 7}

\* the property Post(before, after, res) of every auto-escalation call
EveryEscalation(Post(_, _, _)) ==
    /\ AutoUpgradeFollowup => Post(contacts, contacts', result')
    /\ AutoUpgradeEntityFollowup => Post(entities, entities', result')

C7_Post(before, after, res) ==
    /\ Reported(res) = Due(before, today)
    /\ \A e \in Entries(res) :
          /\ e[2] = TierOf(before[e[1]])
          /\ e[3] = OneStepUp(e[2])
          /\ TierOf(after[e[1]]) = e[3]

\* C7: auto-escalation returns (record, old_tier, new_tier) for exactly the
\* records whose tier is FU5, FU3 or FU1, whose follow-up date is present
\* and parses, and for which today - date > 7; new_tier is one step up the
\* chain FU5 -> FU3 -> FU1 -> FU0.
C7_EscalatesExactlyDue == [][EveryEscalation(C7_Post)]_vars

C7_Witness ==
    /\ Returned("auto_upgrade_followup")
    /\ Len(contacts) = 2
    /\ result = << <<2, "FU3", "FU1">> >>
    /\ TierOf(contacts[1]) = "FU5" /\ DateParses(contacts[1])
    /\ TierOf(contacts[2]) = "FU1"

C8_Post(before, after, res) ==
    \A i \in 1..Len(before) :
        (\/ TierOf(before[i]) \in {"FU9", "FU0"}
         \/ TierOf(before[i]) \notin {"FU0", "FU1", "FU3", "FU5", "FU9"}) =>
            /\ after[i] = before[i]
            /\ i \notin Reported(res)

\* C8: auto-escalation never changes and never reports a record whose tier
\* is FU9, however old its follow-up date; nor one whose tier is FU0 or an
\* unrecognized string.
C8_ExemptTiersUntouched == [][EveryEscalation(C8_Post)]_vars

C8_Witness ==
    /\ Returned("auto_upgrade_followup")
    /\ Len(contacts) = 2
    /\ TierOf(contacts[1]) = "FU9" /\ DateOf(contacts[1]) = Iso(2023, 3, 10)
    /\ result = << <<2, "FU5", "FU3">> >>

C9_Post(before, after, res) ==
    \A i \in 1..Len(before) :
        TierOf(before[i]) = "FU5" /\ DateParses(before[i]) =>
            /\ DaysOverdue(before[i], today) = 8 =>
                  /\ <<i, "FU5", "FU3">> \in Entries(res)
                  /\ after[i] = SetItem(before[i], "follow_up_priority", "FU3")
            /\ DaysOverdue(before[i], today) <= 7 =>
                  /\ i \notin Reported(res)
                  /\ after[i] = before[i]

\* C9: the threshold is strict: an FU5 record dated 8 days before today
\* escalates to FU3; one dated exactly 7 days before today, or later, does
\* not escalate and is left unchanged.
C9_StrictThreshold == [][EveryEscalation(C9_Post)]_vars

C9_Witness ==
    /\ Returned("auto_upgrade_followup")
    /\ call.today = Today0
    /\ Len(contacts) = 2
    /\ TierOf(contacts[1]) = "FU3" /\ DateOf(contacts[1]) = Iso(2024, 3, 2)
    /\ TierOf(contacts[2]) = "FU5" /\ DateOf(contacts[2]) = Iso(2024, 3, 3)
    /\ result = << <<1, "FU5", "FU3">> >>

C10_Post(before, after, res) ==
    /\ call'.pc = "done"
    /\ \A i \in 1..Len(before) :
          ~DateParses(before[i]) => after[i] = before[i] /\ i \notin Reported(res)
    /\ Due(before, today) \subseteq Reported(res)
    /\ Len(after) = Len(before)

\* C10: auto-escalation skips, without raising and without changing them,
\* the records whose follow-up date is missing, empty or unparseable, and
\* still processes all the remaining records of the collection.
C10_BadDatesSkipped == [][EveryEscalation(C10_Post)]_vars

C10_Witness ==
    /\ Returned("auto_upgrade_followup")
    /\ Len(contacts) = 2
    /\ TierOf(contacts[1]) = "FU5" /\ DateOf(contacts[1]) = Iso(2024, 2, 30)
    /\ result = << <<2, "FU5", "FU3">> >>


C11_Post(before, after, res) ==
    /\ Len(after) = Len(before)
    /\ \A i \in 1..Len(before) : TierOf(after[i]) = TierOf(before[i])

\* C11: auto-escalation only returns the list of escalations for the caller
\* to apply: after the call the follow-up tier stored in each input record
\* is the same as before the call.
C11_InputTiersUnchanged == [][EveryEscalation(C11_Post)]_vars

\* a call that follows a returned call of the same function on the same
\* collection, the date not having changed in between
SecondCall(fn) == Returned(fn) /\ call.today = today

\* C12: auto-escalation is idempotent: with the current date fixed, a second
\* call on the same collection produces no further tier change, the
\* collection after two calls equals the collection after one call.
C12_EscalationIdempotent ==
    [][/\ (AutoUpgradeFollowup /\ SecondCall("auto_upgrade_followup"))
            => contacts' = contacts
       /\ (AutoUpgradeEntityFollowup /\ SecondCall("auto_upgrade_entity_followup"))
            => entities' = entities]_vars


----------------------------------------------------------------------------
(* Claims about repeated and interrupted ranking calls, under SpecRank.    *)

\* the call in progress ranks the list an earlier call returned, in the
\* order it was returned, and the date has not changed since that call
RanksItsResult(records) ==
    /\ today = Today0
    /\ records # <<>>
    /\ result = [k \in 1..Len(records) |-> k]

\* C13: ranking is idempotent: with the current date fixed, ranking the
\* result of a ranking call leaves every score annotation as it was and
\* returns the records in the same sequence.
C13_RankingIdempotent ==
    [][/\ (SortContactsScore /\ RanksItsResult(contacts)) => contacts' = contacts
       /\ (SortContactsReturn /\ RanksItsResult(contacts)) => result' = result
       /\ (SortEntitiesScore /\ RanksItsResult(entities)) => entities' = entities
       /\ (SortEntitiesReturn /\ RanksItsResult(entities)) => result' = result]_vars

C13_Witness ==
    /\ Returned("sort_contacts_by_score")
    /\ RanksItsResult(contacts)
    /\ Len(contacts) = 2
    /\ contacts[1]["score"] = contacts[2]["score"]
    /\ Get(contacts[1], "contact_priority", "") = "3A-injeok useonsunwi"
    /\ Get(contacts[2], "contact_priority", "") = "1F-Family"

\* the fields of a record that the scoring functions are documented to read
Inputs(record) ==
    [k \in DOMAIN record \cap {"contact_priority", "business_priority",
                                "follow_up_priority", "follow_up_date"}
        |-> record[k]]

\* C14: within one ranking call every record is scored against the same
\* 'today', even when the date rolls over during the call: the scores a
\* call leaves are those of one date, and two records with identical inputs
\* have the same score.
C14_OneTodayPerCall ==
    /\ Returned("sort_contacts_by_score") =>
          /\ \E t \in Today0..today : \A k \in 1..Len(contacts) :
                 contacts[k]["score"] = score_contact(contacts[k], t).val
          /\ \A j, k \in 1..Len(contacts) :
                 Inputs(contacts[j]) = Inputs(contacts[k])
                     => contacts[j]["score"] = contacts[k]["score"]
    /\ Returned("sort_entities_by_score") =>
          /\ \E t \in Today0..today : \A k \in 1..Len(entities) :
                 entities[k]["score"] = score_entity(entities[k], t).val
          /\ \A j, k \in 1..Len(entities) :
                 Inputs(entities[j]) = Inputs(entities[k])
                     => entities[j]["score"] = entities[k]["score"]


\* C15: the score is a function of (priority tier, follow-up tier,
\* follow-up date, today) alone: the score a ranking call gives a record is
\* the score of these fields on that date, whatever else the record holds,
\* a score left by an earlier call included.
C15_ScoreOfInputsOnly ==
    [][/\ (SortContactsScore /\ call'.pc = "loop") =>
              contacts'[call.i]["score"]
                  = score_contact(Inputs(contacts[call.i]), today).val
       /\ (SortEntitiesScore /\ call'.pc = "loop") =>
              entities'[call.i]["score"]
                  = score_entity(Inputs(entities[call.i]), today).val]_vars

C15_Witness ==
    /\ call.fn = "sort_contacts_by_score" /\ call.pc = "loop" /\ call.i = 2
    /\ today = Today0 + 1
    /\ Len(contacts) = 2
    /\ "name" \in DOMAIN contacts[1] /\ "name" \notin DOMAIN contacts[2]
    /\ Inputs(contacts[1]) = Inputs(contacts[2])
    /\ "score" \in DOMAIN contacts[1] /\ contacts[1]["score"] = 341
    /\ "score" \in DOMAIN contacts[2] /\ contacts[2]["score"] = 335

\* C20: ranking is stable: two records with equal scores appear in the
\* result in the relative order they have in the input list, although the
\* sort is descending.
C20_StableForEqualScores ==
    /\ Returned("sort_contacts_by_score") =>
          \A j, k \in 1..Len(result) :
              (j < k /\ contacts[result[j]]["score"] = contacts[result[k]]["score"])
                  => result[j] < result[k]
    /\ Returned("sort_entities_by_score") =>
          \A j, k \in 1..Len(result) :
              (j < k /\ entities[result[j]]["score"] = entities[result[k]]["score"])
                  => result[j] < result[k]

C20_Witness ==
    /\ Returned("sort_contacts_by_score")
    /\ Len(contacts) = 2
    /\ contacts[1]["score"] = 335 /\ contacts[2]["score"] = 335
    /\ Get(contacts[1], "contact_priority", "") = "1F-Family"
    /\ Get(contacts[2], "contact_priority", "") = "3A-injeok useonsunwi"
    /\ result = <<1, 2>>


----------------------------------------------------------------------------
(* Further claims about the scoring functions, under SpecScore.            *)

\* C16: for every record and date the priority weight, the follow-up
\* weight and the overdue penalty lie in [0, 100], and the contact score
\* and the entity score lie in [0, 100].
C16_WeightsAndScoresBounded ==
    /\ ArgContactWeight \in 0..100
    /\ ArgEntityWeight \in 0..100
    /\ ArgFollowUpWeight \in 0..100
    /\ contact_overdue(arg, today).val \in 0..100
    /\ entity_overdue(arg, today).val \in 0..100
    /\ ret.fn # "" => ret.exc = "" /\ ret.val \in 0..1000

C16_Witness ==
    /\ ret.fn = "score_entity"
    /\ ArgEntityWeight = 100 /\ ArgFollowUpWeight = 100
    /\ entity_overdue(arg, today).val = 100
    /\ ret.val = 1000

\* the record being scored, with follow-up date d instead
ArgWithDate(d) == SetItem(arg, "follow_up_date", d)
DaysOverdueOn(d) == today - Strptime(d).date

\* C17: the overdue penalty is non-decreasing in days_overdue and saturates
\* at 100: 1 day overdue gives 2, 50 days give 100, and so does every
\* larger number of days.
C17_PenaltyMonotoneSaturating ==
    ArgDateParses =>
        LET days    == DaysOverdueOn(ArgDate)
            penalty == contact_overdue(arg, today).val
        IN  /\ entity_overdue(arg, today).val = penalty
            /\ \A d \in ValidDates :
                   DaysOverdueOn(d) >= days
                       => contact_overdue(ArgWithDate(d), today).val >= penalty
            /\ days = 1 => penalty = 2
            /\ days = 50 => penalty = 100
            /\ days > 50 => penalty = 100

C17_Witness ==
    /\ ret.fn = "score_contact"
    /\ ArgDateParses
    /\ DaysOverdueOn(ArgDate) = 367
    /\ contact_overdue(arg, today).val = 100

\* a contact with tier FU9, a priority tier of weight 0 and a follow-up
\* date 30 days before today has been scored
C18_Case ==
    /\ ret.fn = "score_contact"
    /\ ArgTier("follow_up_priority") = "FU9"
    /\ ArgContactWeight = 0
    /\ ArgDateParses /\ DaysOverdueOn(ArgDate) = 30

\* C18 as stated: such a contact has score 30.0.
C18_Score30 == C18_Case => ret.val = 300

\* C18 as amended: such a contact has score
\* 0*0.30 + 0*0.25 + min(30*2, 100)*0.30 = 18.0.
C18_Score18 == C18_Case => ret.val = 180

C18_Witness == C18_Case /\ ArgTier("contact_priority") = "VIP" /\ ret.val = 180

\* C19: a contact with priority tier "1A-insaeng-gwangye", follow-up tier
\* FU0 and no follow-up date has score 100*0.30 + 100*0.25 = 55.0.
C19_Score55 ==
    (/\ ret.fn = "score_contact"
     /\ ArgTier("contact_priority") = "1A-insaeng-gwangye"
     /\ ArgTier("follow_up_priority") = "FU0"
     /\ ArgDate = EmptyStr)
        => ret.val = 550

C19_Witness ==
    /\ ret.fn = "score_contact"
    /\ ArgTier("contact_priority") = "1A-insaeng-gwangye"
    /\ ArgTier("follow_up_priority") = "FU0"
    /\ "follow_up_date" \notin DOMAIN arg
    /\ ret.val = 550


----------------------------------------------------------------------------
(* Claims C21 and C22.                                                     *)

\* C21: ranking an empty collection returns an empty collection and never
\* raises.
C21_EmptyRanksEmpty ==
    /\ (call.fn = "sort_contacts_by_score" /\ contacts = <<>>) =>
          /\ call.pc # "raised"
          /\ call.pc = "done" => result = <<>>
    /\ (call.fn = "sort_entities_by_score" /\ entities = <<>>) =>
          /\ call.pc # "raised"
          /\ call.pc = "done" => result = <<>>

C21_Witness ==
    /\ Returned("sort_contacts_by_score")
    /\ contacts = <<>>
    /\ result = <<>>

\* the exact weighted sum of score_contact, in hundredths
ContactExactSum ==
    30 * ArgContactWeight + 25 * ArgFollowUpWeight + 30 * contact_overdue(arg, today).val

\* C22: every returned score is the weighted sum rounded to one decimal
\* place: a whole number of tenths within 0.05 of the exact weighted sum,
\* for contacts and for entities.
C22_RoundedToOneDecimal ==
    /\ ret.fn = "score_contact" =>
          /\ ret.val \in Nat
          /\ 10 * ret.val - ContactExactSum \in -5..5
    /\ ret.fn = "score_entity" =>
          /\ ret.val \in Nat
          /\ 10 * ret.val - EntityExactSum \in -5..5

C22_Witness ==
    /\ ret.fn = "score_entity"
    /\ ArgEntityWeight = 75 /\ ArgFollowUpWeight = 0
    /\ entity_overdue(arg, today).val = 0
    /\ EntityExactSum = 2625
    /\ ret.val \in {262, 263}


----------------------------------------------------------------------------
(* Further claims about auto-escalation, under SpecEscalate.               *)

\* how many steps a tier is away from FU0 on the chain FU5, FU3, FU1, FU0
StepsToFU0(tier) ==
    CASE tier = "FU5" -> 3 [] tier = "FU3" -> 2 [] tier = "FU1" -> 1 [] OTHER -> 0

\* the follow-up date of the record is more than 7 days before day t
LongOverdue(r, t) == DateParses(r) /\ DaysOverdue(r, t) > 7

C24_Post(before, after, res) ==
    \A i \in 1..Len(before) :
        LongOverdue(before[i], today) =>
            /\ TierOf(before[i]) \in {"FU5", "FU3", "FU1"} =>
                  /\ i \in Reported(res)
                  /\ TierOf(after[i]) = OneStepUp(TierOf(before[i]))
                  /\ StepsToFU0(TierOf(after[i])) = StepsToFU0(TierOf(before[i])) - 1
            /\ TierOf(before[i]) = "FU0" =>
                  /\ i \notin Reported(res)
                  /\ after[i] = before[i]

C25_Post(before, after, res) ==
    /\ \A k \in 1..Len(res) :
          Get(FU_WEIGHTS, res[k][3], 0) > Get(FU_WEIGHTS, res[k][2], 0)
    /\ \A j, k \in 1..Len(res) : j < k => res[j][1] < res[k][1]

\* C25: auto-escalation only ever increases urgency: in every returned
\* (record, old_tier, new_tier) the follow-up weight of new_tier is greater
\* than that of old_tier, each input record appears at most once in the
\* result, and the result lists the records in input order.
C25_UrgencyOnlyIncreases == [][EveryEscalation(C25_Post)]_vars

C25_Witness ==
    /\ Returned("auto_upgrade_followup")
    /\ Len(contacts) = 2
    /\ result = <<<<1, "FU5", "FU3">>, <<2, "FU3", "FU1">>>>

\* records that agree with those of the list on follow-up tier and date,
\* and hold nothing else the list holds
Twin(list) ==
    [k \in 1..Len(list) |->
        [f \in DOMAIN list[k] \cap {"follow_up_priority", "follow_up_date"}
            |-> list[k][f]]
        @@ ("twin" :> "yes")]

\* C27: contact and entity auto-escalation are the same operation: on two
\* collections that agree pairwise on follow-up tier and follow-up date
\* they escalate the same positions with the same (old_tier, new_tier), on
\* the same date.
C27_SameOperation ==
    [][/\ (AutoUpgradeFollowup /\ call'.pc = "done") =>
              result' = auto_upgrade_entity_followup(Twin(contacts), today).upgraded
       /\ (AutoUpgradeEntityFollowup /\ call'.pc = "done") =>
              result' = auto_upgrade_followup(Twin(entities), today).upgraded]_vars

C27_Witness ==
    /\ Returned("auto_upgrade_entity_followup")
    /\ Len(entities) = 2
    /\ result = <<<<2, "FU5", "FU3">>>>
    /\ TierOf(entities[1]) = "FU5"
    /\ DateParses(entities[1])


----------------------------------------------------------------------------
(* Claim C26, under SpecRank.                                              *)

\* a record without its score annotation
WithoutScore(record) == [k \in DOMAIN record \ {"score"} |-> record[k]]

\* the steps of a ranking call change list `before` into `after` in
\* nothing but the score of its records
OnlyScoresChange(before, after) ==
    /\ Len(after) = Len(before)
    /\ \A k \in 1..Len(before) : WithoutScore(after[k]) = WithoutScore(before[k])

\* C26: ranking changes nothing but the `score` field: every other field of
\* every record is the same after each step of the call as before it, the
\* result holds exactly the input records, each once, and the caller's list
\* keeps its order.
C26_RankingOnlyAnnotates ==
    [][/\ SortContactsScore =>
              OnlyScoresChange(contacts, contacts') /\ entities' = entities
       /\ SortContactsReturn =>
              /\ contacts' = contacts /\ entities' = entities
              /\ IsPermutation(result', Len(contacts))
       /\ SortEntitiesScore =>
              OnlyScoresChange(entities, entities') /\ contacts' = contacts
       /\ SortEntitiesReturn =>
              /\ entities' = entities /\ contacts' = contacts
              /\ IsPermutation(result', Len(entities))]_vars

C26_Witness ==
    /\ Returned("sort_contacts_by_score")
    /\ Len(contacts) = 2
    /\ result = <<2, 1>>
    /\ "name" \in DOMAIN contacts[2] /\ contacts[2]["name"] = "Kim"
    /\ Get(contacts[1], "contact_priority", "") = "VIP"
    /\ contacts[1]["score"] < contacts[2]["score"]


----------------------------------------------------------------------------
(* The storage layer (src/sheets.py, src/sheets_entities.py).  A tab is    *)
(* the sequence of its data rows below the header row; a row is a function *)
(* from the header of a column to the cell.  Of the columns, the model     *)
(* keeps the identifier, the follow-up priority, the follow-up date and    *)
(* "Last Modified"; the other cells are neither read nor written by the    *)
(* operations modelled.  Every call of the spreadsheet API may raise.      *)

CACHE_TTL == 300

\* _is_cached(key) / _is_ecached(key), at time t
_is_cached(c, t) == c.set /\ (t - c.time) < CACHE_TTL

\* datetime.now().strftime("%Y-%m-%d") on day t
Strftime(t) ==
    CHOOSE s \in {Iso(2024, 3, d) : d \in 10..13} : Strptime(s).date = t

MasterRow(name_hmac, fu, fu_date) ==
    ("Name_hmac" :> name_hmac) @@ ("Follow-up Priority" :> fu)
    @@ ("Follow-up Date" :> fu_date) @@ ("Last Modified" :> EmptyStr)

BusinessRow(entity_hmac, fu, fu_date) ==
    ("Entity_hmac" :> entity_hmac) @@ ("Follow-up Priority" :> fu)
    @@ ("Follow-up Date" :> fu_date) @@ ("Last Modified" :> EmptyStr)

_row_to_contact(row) ==
    [name_hmac |-> row["Name_hmac"],
     follow_up_priority |-> row["Follow-up Priority"],
     follow_up_date |-> row["Follow-up Date"],
     last_modified |-> row["Last Modified"]]

_row_to_entity(row) ==
    [entity_hmac |-> row["Entity_hmac"],
     follow_up_priority |-> row["Follow-up Priority"],
     follow_up_date |-> row["Follow-up Date"],
     last_modified |-> row["Last Modified"]]

\* the list get_all_contacts builds from the rows it read
ContactsOf(rows) == [k \in 1..Len(rows) |-> _row_to_contact(rows[k])]
EntitiesOf(rows) == [k \in 1..Len(rows) |-> _row_to_entity(rows[k])]

\* get_all_contacts() at time t without an API error: the cache afterwards
\* and the list returned (the cached list itself on a hit)
get_all_contacts(c, ws, t) ==
    IF _is_cached(c, t) THEN [cache |-> c, ret |-> c.list]
    ELSE [cache |-> [set |-> TRUE, list |-> ContactsOf(ws), time |-> t],
          ret |-> ContactsOf(ws)]

get_all_entities(c, ws, t) ==
    IF _is_cached(c, t) THEN [cache |-> c, ret |-> c.list]
    ELSE [cache |-> [set |-> TRUE, list |-> EntitiesOf(ws), time |-> t],
          ret |-> EntitiesOf(ws)]

\* _find_row_index(ws, name_hmac): the 1-based sheet row of the first data
\* row whose column B holds name_hmac (the header is row 1), or 0 for None
_find_row_index(ws, column, hmac) ==
    LET hits == {k \in 1..Len(ws) : ws[k][column] = hmac}
    IN  IF hits = {} THEN 0
        ELSE 1 + (CHOOSE k \in hits : \A j \in hits : k <= j)

\* where an API error may interrupt an update
UpdateOutcomes == {"ok", "error reading", "error after first cell", "error logging"}

\* update_contact(name_hmac, {"follow_up_priority": new_value}, changed_by)
\* on day t: the tab and the change log afterwards, whether the cache was
\* invalidated, and the exception that left the function
update_contact(ws, log, name_hmac, new_value, changed_by, t, outcome) ==
    LET row_idx   == _find_row_index(ws, "Name_hmac", name_hmac)
        unchanged == [ws |-> ws, log |-> log, invalidate |-> FALSE, exc |-> ""]
    IN  IF outcome = "error reading" THEN [unchanged EXCEPT !.exc = "APIError"]
        ELSE IF row_idx = 0 THEN unchanged
        ELSE LET k         == row_idx - 1
                 old_value == ws[k]["Follow-up Priority"]
                 cell1     == [ws EXCEPT ![k]["Follow-up Priority"] = new_value]
                 cell2     == [cell1 EXCEPT ![k]["Last Modified"] = Strftime(t)]
                 logged    == Append(log, [tab |-> "Change Log", hmac |-> name_hmac,
                                           field |-> "Follow-up Priority",
                                           old |-> old_value, new |-> new_value,
                                           by |-> changed_by])
             IN  IF old_value = new_value THEN unchanged
                 ELSE IF outcome = "error after first cell"
                 THEN [ws |-> cell1, log |-> log, invalidate |-> FALSE, exc |-> "APIError"]
                 ELSE IF outcome = "error logging"
                 THEN [ws |-> cell2, log |-> log, invalidate |-> FALSE, exc |-> "APIError"]
                 ELSE [ws |-> cell2, log |-> logged, invalidate |-> TRUE, exc |-> ""]

\* update_entity(entity_hmac, {"follow_up_priority": new_value}, changed_by):
\* the cells are written by one batch_update
update_entity(ws, log, entity_hmac, new_value, changed_by, t, outcome) ==
    LET row_idx   == _find_row_index(ws, "Entity_hmac", entity_hmac)
        unchanged == [ws |-> ws, log |-> log, invalidate |-> FALSE, exc |-> ""]
    IN  IF outcome \in {"error reading", "error after first cell"}
        THEN [unchanged EXCEPT !.exc = "APIError"]
        ELSE IF row_idx = 0 THEN unchanged
        ELSE LET k         == row_idx - 1
                 old_value == ws[k]["Follow-up Priority"]
                 cells     == [ws EXCEPT ![k]["Follow-up Priority"] = new_value,
                                         ![k]["Last Modified"] = Strftime(t)]
                 logged    == Append(log, [tab |-> "Entity Change Log",
                                           hmac |-> entity_hmac,
                                           field |-> "Follow-up Priority",
                                           old |-> old_value, new |-> new_value,
                                           by |-> changed_by])
             IN  IF old_value = new_value THEN unchanged
                 ELSE IF outcome = "error logging"
                 THEN [ws |-> cells, log |-> log, invalidate |-> FALSE, exc |-> "APIError"]
                 ELSE [ws |-> cells, log |-> logged, invalidate |-> TRUE, exc |-> ""]


----------------------------------------------------------------------------
(* SpecStartup: _run_contact_startup_tasks (src/app.py), run once by every *)
(* start of the application, before any request is served.  `contacts` and *)
(* `entities` are its local lists; the list get_all_contacts returns is    *)
(* the list object the cache holds, so what auto_upgrade_followup writes   *)
(* into its records is written into the cached records.  The date is the   *)
(* same throughout.                                                        *)

\* rows of the tabs: two that share an identifier, the second of them more
\* than 7 days overdue and the first not; one overdue at FU1; one at FU9
MasterRows ==
    { MasterRow("h1", "FU5", Iso(2024, 3, 3)),
      MasterRow("h1", "FU5", Iso(2024, 3, 2)),
      MasterRow("h2", "FU1", Iso(2024, 3, 2)),
      MasterRow("h2", "FU9", Iso(2024, 3, 2)) }

BusinessRows ==
    { BusinessRow("h1", "FU5", Iso(2024, 3, 3)),
      BusinessRow("h1", "FU5", Iso(2024, 3, 2)),
      BusinessRow("h2", "FU1", Iso(2024, 3, 2)),
      BusinessRow("h2", "FU9", Iso(2024, 3, 2)) }

TaskStart(n) ==
    [pc |-> "start", k |-> 0, upgraded |-> <<>>, upgraded_entities |-> <<>>,
     starts |-> n]

InitStartup ==
    /\ today = Today0
    /\ arg = EmptyDict
    /\ ret = NoRet
    /\ contacts = <<>>
    /\ entities = <<>>
    /\ call = NoCall
    /\ result = <<>>
    /\ \/ master \in ListsOf(MasterRows) /\ business = <<>>
       \/ master = <<>> /\ business \in ListsOf(BusinessRows)
    /\ changelog = <<>>
    /\ cache = NoCache
    /\ ecache = NoCache
    /\ now = 0
    /\ task = TaskStart(1)
    /\ threads = <<>>

\* the clock of time.time() advances
TimePasses ==
    /\ now < MaxClock * (CACHE_TTL \div 2)
    /\ now' = now + (CACHE_TTL \div 2)
    /\ UNCHANGED <<today, arg, ret, contacts, entities, call, result,
                   master, business, changelog, cache, ecache, task, threads>>

\* an exception reaches "except Exception as e: logger.warning(...)"
Swallowed == [task EXCEPT !.pc = "swallowed"]

\* ensure_sheet_headers(); ensure_entity_sheet_headers()
TaskEnsureHeaders ==
    /\ task.pc = "start"
    /\ \E raised \in BOOLEAN :
          task' = IF raised THEN Swallowed ELSE [task EXCEPT !.pc = "contacts"]
    /\ UNCHANGED <<today, arg, ret, contacts, entities, call, result,
                   master, business, changelog, cache, ecache, now, threads>>

\* contacts = get_all_contacts()
TaskGetAllContacts ==
    /\ task.pc = "contacts"
    /\ \E raised \in BOOLEAN :
          IF raised /\ ~_is_cached(cache, now)
          THEN /\ task' = Swallowed
               /\ UNCHANGED <<contacts, cache>>
          ELSE LET r == get_all_contacts(cache, master, now)
               IN  /\ contacts' = r.ret
                   /\ cache' = r.cache
                   /\ task' = [task EXCEPT !.pc = "upgrade"]
    /\ UNCHANGED <<today, arg, ret, entities, call, result,
                   master, business, changelog, ecache, now, threads>>

\* upgraded = auto_upgrade_followup(contacts)
TaskAutoUpgradeFollowup ==
    /\ task.pc = "upgrade"
    /\ LET r == auto_upgrade_followup(contacts, today)
       IN  /\ contacts' = r.list
           /\ cache' = IF cache.set THEN [cache EXCEPT !.list = r.list] ELSE cache
           /\ task' = [task EXCEPT !.pc = "persist", !.k = 1, !.upgraded = r.upgraded]
    /\ UNCHANGED <<today, arg, ret, entities, call, result,
                   master, business, changelog, ecache, now, threads>>

\* one iteration of "for contact, old_fu, new_fu in upgraded: update_contact(...)"
TaskUpdateContact ==
    /\ task.pc = "persist" /\ task.k <= Len(task.upgraded)
    /\ \E outcome \in UpdateOutcomes :
          LET u == task.upgraded[task.k]
              r == update_contact(master, changelog, contacts[u[1]]["name_hmac"],
                                  u[3], "AI", today, outcome)
          IN  /\ master' = r.ws
              /\ changelog' = r.log
              /\ cache' = IF r.invalidate THEN NoCache ELSE cache
              /\ task' = IF r.exc # "" THEN Swallowed ELSE [task EXCEPT !.k = @ + 1]
    /\ UNCHANGED <<today, arg, ret, contacts, entities, call, result,
                   business, ecache, now, threads>>

\* entities = get_all_entities(), after the loop over upgraded
TaskGetAllEntities ==
    /\ task.pc = "persist" /\ task.k > Len(task.upgraded)
    /\ \E raised \in BOOLEAN :
          IF raised /\ ~_is_cached(ecache, now)
          THEN /\ task' = Swallowed
               /\ UNCHANGED <<entities, ecache>>
          ELSE LET r == get_all_entities(ecache, business, now)
               IN  /\ entities' = r.ret
                   /\ ecache' = r.cache
                   /\ task' = [task EXCEPT !.pc = "eupgrade"]
    /\ UNCHANGED <<today, arg, ret, contacts, call, result,
                   master, business, changelog, cache, now, threads>>

\* upgraded_entities = auto_upgrade_entity_followup(entities)
TaskAutoUpgradeEntityFollowup ==
    /\ task.pc = "eupgrade"
    /\ LET r == auto_upgrade_entity_followup(entities, today)
       IN  /\ entities' = r.list
           /\ ecache' = IF ecache.set THEN [ecache EXCEPT !.list = r.list] ELSE ecache
           /\ task' = [task EXCEPT !.pc = "epersist", !.k = 1,
                                   !.upgraded_entities = r.upgraded]
    /\ UNCHANGED <<today, arg, ret, contacts, call, result,
                   master, business, changelog, cache, now, threads>>

\* one iteration of "for entity, old_fu, new_fu in upgraded_entities: update_entity(...)"
TaskUpdateEntity ==
    /\ task.pc = "epersist" /\ task.k <= Len(task.upgraded_entities)
    /\ \E outcome \in UpdateOutcomes :
          LET u == task.upgraded_entities[task.k]
              r == update_entity(business, changelog, entities[u[1]]["entity_hmac"],
                                 u[3], "AI", today, outcome)
          IN  /\ business' = r.ws
              /\ changelog' = r.log
              /\ ecache' = IF r.invalidate THEN NoCache ELSE ecache
              /\ task' = IF r.exc # "" THEN Swallowed ELSE [task EXCEPT !.k = @ + 1]
    /\ UNCHANGED <<today, arg, ret, contacts, entities, call, result,
                   master, cache, now, threads>>

\* the function returns after the last update
TaskReturn ==
    /\ task.pc = "epersist" /\ task.k > Len(task.upgraded_entities)
    /\ task' = [task EXCEPT !.pc = "returned"]
    /\ UNCHANGED <<today, arg, ret, contacts, entities, call, result,
                   master, business, changelog, cache, ecache, now, threads>>

\* the application is started again: a new process, with empty caches
Restart ==
    /\ task.pc \in {"returned", "swallowed"}
    /\ task.starts < MaxStarts
    /\ task' = TaskStart(task.starts + 1)
    /\ contacts' = <<>> /\ entities' = <<>>
    /\ cache' = NoCache /\ ecache' = NoCache
    /\ UNCHANGED <<today, arg, ret, call, result,
                   master, business, changelog, now, threads>>

NextStartup ==
    \/ TimePasses
    \/ TaskEnsureHeaders
    \/ TaskGetAllContacts \/ TaskAutoUpgradeFollowup \/ TaskUpdateContact
    \/ TaskGetAllEntities \/ TaskAutoUpgradeEntityFollowup \/ TaskUpdateEntity
    \/ TaskReturn
    \/ Restart

SpecStartup == InitStartup /\ [][NextStartup]_vars


----------------------------------------------------------------------------
(* SpecCache: request threads that call the storage layer concurrently.    *)
(* A thread runs one operation; between two calls of the spreadsheet API,  *)
(* and between two statements that read or write _cache, another thread    *)
(* may run.  A thread record holds the operation, its position, its        *)
(* arguments, and its locals: row_idx, the value or list read, and what it *)
(* returned.                                                               *)

Requests == {1, 2}

IdleThread ==
    [op |-> "", pc |-> "idle", hmac |-> "", value |-> "", row_idx |-> 0,
     rows |-> <<>>, ret |-> ""]

\* the operations a request may call, with their arguments
Calls ==
    { [IdleThread EXCEPT !.op = "get_all_contacts", !.pc = "check"],
      [IdleThread EXCEPT !.op = "add_contact", !.pc = "append", !.hmac = "h3"],
      [IdleThread EXCEPT !.op = "update_contact", !.pc = "find",
                         !.hmac = "h1", !.value = "FU0"],
      [IdleThread EXCEPT !.op = "delete_contact", !.pc = "find", !.hmac = "h1"] }

CacheRows ==
    { MasterRow("h1", "FU5", Iso(2024, 3, 2)),
      MasterRow("h2", "FU1", Iso(2024, 3, 2)) }

\* time.time() at the start: later than CACHE_TTL after the epoch
Epoch == 4 * CACHE_TTL

InitCache ==
    /\ today = Today0
    /\ arg = EmptyDict
    /\ ret = NoRet
    /\ contacts = <<>>
    /\ entities = <<>>
    /\ call = NoCall
    /\ result = <<>>
    /\ master \in ListsOf(CacheRows)
    /\ business = <<>>
    /\ changelog = <<>>
    /\ cache = NoCache
    /\ ecache = NoCache
    /\ now = Epoch
    /\ task = [pc |-> "off"]
    /\ threads = [t \in Requests |-> IdleThread]

\* what an action of a thread leaves alone besides the storage it names
ThreadFrame == <<today, arg, ret, contacts, entities, call, result,
                 business, ecache, task>>

\* the clock of time.time() advances while requests are served
ClockAdvances ==
    /\ now < Epoch + MaxClock * (CACHE_TTL \div 2)
    /\ now' = now + (CACHE_TTL \div 2)
    /\ UNCHANGED <<master, changelog, cache, threads>>
    /\ UNCHANGED ThreadFrame

\* a request calls one of the operations
RequestCalls ==
    \E t \in Requests, c \in Calls :
        /\ threads[t].pc = "idle"
        /\ threads' = [threads EXCEPT ![t] = c]
        /\ UNCHANGED <<master, changelog, cache, now>>
        /\ UNCHANGED ThreadFrame

\* the positions at which the next statement is a call of the API
ApiSteps == {"read", "append", "find", "rowvals", "cell1", "cell2", "log", "delete"}

\* the API call a thread is about to make raises; the exception leaves the
\* operation
ApiError ==
    \E t \in Requests :
        /\ threads[t].pc \in ApiSteps
        /\ threads' = [threads EXCEPT ![t].pc = "raised"]
        /\ UNCHANGED <<master, changelog, cache, now>>
        /\ UNCHANGED ThreadFrame

\* get_all_contacts: if _is_cached("contacts"):
GetAllCheck ==
    \E t \in Requests :
        /\ threads[t].pc = "check"
        /\ threads' = [threads EXCEPT
                         ![t].pc = IF _is_cached(cache, now) THEN "hit" ELSE "read"]
        /\ UNCHANGED <<master, changelog, cache, now>>
        /\ UNCHANGED ThreadFrame

\* get_all_contacts: return _cache["contacts"]
GetAllHit ==
    \E t \in Requests :
        /\ threads[t].pc = "hit"
        /\ threads' = [threads EXCEPT ![t].pc = "done",
                                      ![t].rows = cache.list,
                                      ![t].ret = IF cache.set THEN "list" ELSE "None"]
        /\ UNCHANGED <<master, changelog, cache, now>>
        /\ UNCHANGED ThreadFrame

\* get_all_contacts: all_rows = ws.get_all_values(), and the loop that
\* builds `contacts` from it
GetAllRead ==
    \E t \in Requests :
        /\ threads[t].pc = "read"
        /\ threads' = [threads EXCEPT ![t].pc = "store",
                                      ![t].rows = ContactsOf(master)]
        /\ UNCHANGED <<master, changelog, cache, now>>
        /\ UNCHANGED ThreadFrame

\* get_all_contacts: _cache["contacts"] = contacts
GetAllStore ==
    \E t \in Requests :
        /\ threads[t].pc = "store"
        /\ cache' = [cache EXCEPT !.set = TRUE, !.list = threads[t].rows]
        /\ threads' = [threads EXCEPT ![t].pc = "stamp"]
        /\ UNCHANGED <<master, changelog, now>>
        /\ UNCHANGED ThreadFrame

\* get_all_contacts: _cache["contacts_time"] = time.time(); return contacts
GetAllStamp ==
    \E t \in Requests :
        /\ threads[t].pc = "stamp"
        /\ cache' = [cache EXCEPT !.time = now]
        /\ threads' = [threads EXCEPT ![t].pc = "done", ![t].ret = "list"]
        /\ UNCHANGED <<master, changelog, now>>
        /\ UNCHANGED ThreadFrame

\* add_contact: ws.append_row(row)
AddContactAppend ==
    \E t \in Requests :
        /\ threads[t].pc = "append"
        /\ master' = Append(master,
                            [MasterRow(threads[t].hmac, "FU9", EmptyStr)
                                EXCEPT !["Last Modified"] = Strftime(today)])
        /\ threads' = [threads EXCEPT ![t].pc = "invalidate"]
        /\ UNCHANGED <<changelog, cache, now>>
        /\ UNCHANGED ThreadFrame

\* _find_row_index(ws, name_hmac) of update_contact and delete_contact, and
\* "if not row_idx: return False"
FindRowIndex ==
    \E t \in Requests :
        /\ threads[t].pc = "find"
        /\ LET row_idx == _find_row_index(master, "Name_hmac", threads[t].hmac)
           IN  threads' = [threads EXCEPT
                   ![t].row_idx = row_idx,
                   ![t].pc = IF row_idx = 0 THEN "done"
                             ELSE IF threads[t].op = "delete_contact" THEN "delete"
                             ELSE "rowvals",
                   ![t].ret = IF row_idx = 0 THEN "False" ELSE ""]
        /\ UNCHANGED <<master, changelog, cache, now>>
        /\ UNCHANGED ThreadFrame

\* the cell of a column in sheet row row_idx; "" below the last data row
CellAt(ws, row_idx, column) ==
    IF row_idx - 1 \in 1..Len(ws) THEN ws[row_idx - 1][column] ELSE ""

\* ws.update_cell(row_idx, column, v); below the last data row the cell of
\* an empty row is written
RECURSIVE UpdateCell(_, _, _, _)
UpdateCell(ws, row_idx, column, v) ==
    IF row_idx - 1 \in 1..Len(ws) THEN [ws EXCEPT ![row_idx - 1][column] = v]
    ELSE UpdateCell(Append(ws, MasterRow("", "", EmptyStr)), row_idx, column, v)

\* update_contact: current_row = ws.row_values(row_idx), and the comparison
\* of the old value with the new one; "if not cells_to_update: return True"
UpdateContactRowValues ==
    \E t \in Requests :
        /\ threads[t].pc = "rowvals"
        /\ LET old_value == CellAt(master, threads[t].row_idx, "Follow-up Priority")
           IN  threads' = [threads EXCEPT
                   ![t].rows = <<old_value>>,
                   ![t].pc = IF old_value = threads[t].value THEN "done" ELSE "cell1",
                   ![t].ret = IF old_value = threads[t].value THEN "True" ELSE ""]
        /\ UNCHANGED <<master, changelog, cache, now>>
        /\ UNCHANGED ThreadFrame

\* update_contact: ws.update_cell(r, c, v) for the follow-up priority
UpdateContactCell ==
    \E t \in Requests :
        /\ threads[t].pc = "cell1"
        /\ master' = UpdateCell(master, threads[t].row_idx, "Follow-up Priority",
                                threads[t].value)
        /\ threads' = [threads EXCEPT ![t].pc = "cell2"]
        /\ UNCHANGED <<changelog, cache, now>>
        /\ UNCHANGED ThreadFrame

\* update_contact: ws.update_cell(r, c, v) for "Last Modified"
UpdateContactLastModified ==
    \E t \in Requests :
        /\ threads[t].pc = "cell2"
        /\ master' = UpdateCell(master, threads[t].row_idx, "Last Modified",
                                Strftime(today))
        /\ threads' = [threads EXCEPT ![t].pc = "log"]
        /\ UNCHANGED <<changelog, cache, now>>
        /\ UNCHANGED ThreadFrame

\* update_contact: log_change(name_hmac, field_name, old_val, new_val, changed_by)
UpdateContactLog ==
    \E t \in Requests :
        /\ threads[t].pc = "log"
        /\ changelog' = Append(changelog,
                               [tab |-> "Change Log", hmac |-> threads[t].hmac,
                                field |-> "Follow-up Priority",
                                old |-> threads[t].rows[1], new |-> threads[t].value,
                                by |-> "User"])
        /\ threads' = [threads EXCEPT ![t].pc = "invalidate"]
        /\ UNCHANGED <<master, cache, now>>
        /\ UNCHANGED ThreadFrame

\* delete_contact: ws.delete_rows(row_idx)
DeleteContactRows ==
    \E t \in Requests :
        /\ threads[t].pc = "delete"
        /\ LET k == threads[t].row_idx - 1
           IN  master' = IF k \in 1..Len(master)
                         THEN SubSeq(master, 1, k - 1) \o SubSeq(master, k + 1, Len(master))
                         ELSE master
        /\ threads' = [threads EXCEPT ![t].pc = "invalidate"]
        /\ UNCHANGED <<changelog, cache, now>>
        /\ UNCHANGED ThreadFrame

\* _invalidate_cache("contacts"): _cache[key] = None
InvalidateCache ==
    \E t \in Requests :
        /\ threads[t].pc = "invalidate"
        /\ cache' = [cache EXCEPT !.set = FALSE, !.list = <<>>]
        /\ threads' = [threads EXCEPT ![t].pc = "invalidate_time"]
        /\ UNCHANGED <<master, changelog, now>>
        /\ UNCHANGED ThreadFrame

\* _invalidate_cache("contacts"): _cache[f"{key}_time"] = 0; the operation
\* returns
InvalidateCacheTime ==
    \E t \in Requests :
        /\ threads[t].pc = "invalidate_time"
        /\ cache' = [cache EXCEPT !.time = 0]
        /\ threads' = [threads EXCEPT
                         ![t].pc = "done",
                         ![t].ret = IF threads[t].op = "add_contact"
                                    THEN threads[t].hmac ELSE "True"]
        /\ UNCHANGED <<master, changelog, now>>
        /\ UNCHANGED ThreadFrame

NextCache ==
    \/ ClockAdvances
    \/ RequestCalls
    \/ ApiError
    \/ GetAllCheck \/ GetAllHit \/ GetAllRead \/ GetAllStore \/ GetAllStamp
    \/ AddContactAppend
    \/ FindRowIndex
    \/ UpdateContactRowValues \/ UpdateContactCell \/ UpdateContactLastModified
    \/ UpdateContactLog
    \/ DeleteContactRows
    \/ InvalidateCache \/ InvalidateCacheTime

SpecCache == InitCache /\ [][NextCache]_vars

----------------------------------------------------------------------------
(* Claims about the startup task, under SpecStartup.                       *)

\* the stored follow-up tier of data row i of a tab
StoredTier(ws, i) == ws[i]["Follow-up Priority"]

\* rows `ws` hold the escalations `upgraded` of the records `list` read
\* from them, and the tier as read of every record not escalated
Persisted(ws, list, upgraded) ==
    /\ Len(ws) = Len(list)
    /\ \A e \in Entries(upgraded) : StoredTier(ws, e[1]) = e[3]
    /\ \A i \in 1..Len(list) :
          i \notin Reported(upgraded) => StoredTier(ws, i) = TierOf(list[i])

\* C23: at startup the caller persists every escalation: when
\* _run_contact_startup_tasks has finished without a storage error, every
\* stored row whose record was escalated holds the record's new tier,
\* written with changed_by "AI", and every other row keeps its stored tier,
\* also when two rows share an identifier.
C23_StartupPersistsEscalations ==
    task.pc = "returned" =>
        /\ Persisted(master, contacts, task.upgraded)
        /\ Persisted(business, entities, task.upgraded_entities)
        /\ \A k \in 1..Len(changelog) : changelog[k].by = "AI"

\* C28: cache and store agree after the startup task: whenever the task has
\* returned, normally or after swallowing a storage error, and the contacts
\* cache is still valid, the follow-up tier of every cached record is the
\* tier stored in the record's row.
C28_CacheAgreesWithStore ==
    (task.pc \in {"returned", "swallowed"} /\ _is_cached(cache, now)) =>
        /\ Len(cache.list) = Len(master)
        /\ \A i \in 1..Len(master) :
              TierOf(cache.list[i]) = StoredTier(master, i)


\* no operation is in progress, and none was left by an exception
Quiescent == \A t \in Requests : threads[t].pc \in {"idle", "done"}

\* C29: no stale read after a write: once every add_contact, update_contact
\* and delete_contact has returned, a get_all_contacts call that begins
\* returns the content of the sheet, whatever interleaving of calls came
\* before.
C29_NoStaleRead ==
    Quiescent => get_all_contacts(cache, master, now).ret = ContactsOf(master)
====
